---- MODULE Spec2Model ----
(***************************************************************************)
(* A model of the particle store (Particles, src/include/particles.h) and  *)
(* of the timestep loop that mutates it (Experiment::run_time_evolution).  *)
(*                                                                         *)
(* The header particles.h gives the code of is_valid, size, is_empty,      *)
(* begin, end and the hole-skipping iterator.  The bodies of insert,       *)
(* remove, replace, reset, copy_in, ensure_capacity and increase_capacity  *)
(* live in particles.cc: they are modelled from the specification and     *)
(* from the documentation of their declarations in the header.  The same   *)
(* holds for Action::is_valid, Action::perform and Action::operator<.      *)
(* FairLoopSpec is the loop with every enabled step taken, for the claim   *)
(* that it ends.                                                           *)
(* ScatterAction (scatteraction.cc) has its specifications at the end of   *)
(* the module: ScatterSpec, from add_collision to the end of               *)
(* generate_final_state, StringSpec, which follows generate_final_state    *)
(* through string_excitation, whose retry loop makes up to 10000 steps,    *)
(* and ResolveSpec, generate_final_state for one branch and any pair of    *)
(* momenta together with StringSpec, for the kinematics of the elastic     *)
(* scattering.                                                             *)
(***************************************************************************)
EXTENDS Integers, Sequences, FiniteSets, TLC

(***************************************************************************)
(* Bounds of the model.                                                    *)
(***************************************************************************)
\* The capacity the store is constructed with.  particles.h:390 sets 100;
\* the model starts smaller so that capacity growth happens within MaxId.
InitCapacity == 2
\* The largest identity the model hands out between two resets.
MaxId == 2
\* How many copies of stored particles (handles) the callers hold at most.
MaxHandles == 2
\* How often reset() is called at most.
MaxResets == 1
\* The id_process values of the records handed to insert are -1..MaxProc.
MaxProc == 0
\* The longest to_add list handed to replace.
MaxAdd == 2
\* The number of particles the initial conditions create.
NumInitial == 2
\* The tick after which the clock has passed end_time_.
EndTime == 2
\* The finders schedule an action at one of the times 1..MaxTime of the step.
MaxTime == 2
\* The largest number of actions the finders propose in one event.
MaxActions == 3

(***************************************************************************)
(* State.                                                                  *)
(***************************************************************************)
VARIABLES
  particles_,      \* Experiment::particles_, the one Particles object
  debug_build,     \* TRUE iff assert() is compiled in (DEBUG build)
  status,          \* "ok", "assert_failed" or "contract_violated"
  handles,         \* the ParticleData copies taken from the store by callers
  removed,         \* the handles passed to remove/replace since the last reset
  call,            \* the last operation called on the store, with its arguments
  n_insert,        \* number of particles inserted since the last reset
  n_remove,        \* number of particles removed since the last reset
  n_reset,         \* number of calls of reset()
  before_reset,    \* the handles the callers held when reset() was called
  labclock,        \* parameters_.labclock, in ticks
  pc,              \* where run_time_evolution stands
  actions,         \* the action list of the current timestep
  cursor,          \* the position in actions of the range-for loop
  interactions_total,  \* the running counter handed to perform
  visits,          \* what the loop did with the actions of this timestep
  n_proposed,      \* number of actions the finders proposed in this event
  outputs,         \* the at_interaction calls the outputs received, in order
  err_msg,         \* the message report_deviations returned in this timestep
  scatter_pc,      \* where the ScatterAction stands in generate_final_state
  collision_channels_,     \* ScatterAction::collision_channels_
  total_cross_section_,    \* ScatterAction::total_cross_section_
  partial_cross_section_,  \* ScatterAction::partial_cross_section_
  proc,            \* the branch choose_channel returned
  process_type_,   \* ScatterAction::process_type_
  incoming_particles_,  \* Action::incoming_particles_
  outgoing_particles_,  \* Action::outgoing_particles_
  ntry,            \* the local ntry of string_excitation
  success          \* the local success of string_excitation

storevars == <<particles_, debug_build, status, handles, removed, call,
               n_insert, n_remove, n_reset, before_reset>>

loopvars == <<labclock, pc, actions, cursor, interactions_total, visits,
              n_proposed, outputs, err_msg>>

scattervars == <<scatter_pc, collision_channels_, total_cross_section_,
                 partial_cross_section_, proc, process_type_,
                 incoming_particles_, outgoing_particles_, ntry, success>>

vars == <<particles_, debug_build, status, handles, removed, call,
          n_insert, n_remove, n_reset, before_reset,
          labclock, pc, actions, cursor, interactions_total, visits,
          n_proposed, outputs, err_msg,
          scatter_pc, collision_channels_, total_cross_section_,
          partial_cross_section_, proc, process_type_,
          incoming_particles_, outgoing_particles_, ntry, success>>

(***************************************************************************)
(* ParticleData, as far as Particles looks at it: id, id_process, index_    *)
(* and hole_.  The type, momentum and position that copy_in copies along   *)
(* with id_process are not read by any operation of the store; id_process  *)
(* stands for all the copied data.                                         *)
(***************************************************************************)
\* no branch was chosen
NoBranch == [type |-> "None", particle_list |-> << >>, weight |-> 0]

\* no ScatterAction is being resolved
NoScatterAction ==
  /\ scatter_pc = "idle"
  /\ collision_channels_ = << >>
  /\ total_cross_section_ = 0
  /\ partial_cross_section_ = 0
  /\ proc = NoBranch
  /\ process_type_ = "None"
  /\ incoming_particles_ = << >>
  /\ outgoing_particles_ = << >>
  /\ ntry = 0
  /\ success = FALSE

\* The index_ of a ParticleData that was not copied out of a Particles object:
\* no slot of any store the model reaches.
NoIndex == 2147483647

\* A default constructed ParticleData sitting in slot i of data_.
EmptySlot(i) ==
  [id |-> -1, id_process |-> -1, index_ |-> i, hole_ |-> FALSE]

\* The records a caller constructs itself and hands to insert or replace.
NewParticles ==
  { [id |-> -1, id_process |-> ip, index_ |-> NoIndex, hole_ |-> FALSE] :
      ip \in -1 .. MaxProc }

(***************************************************************************)
(* Particles: the code of the header.                                      *)
(***************************************************************************)
\* Particles::Particles()
NewStore ==
  [ id_max_        |-> -1,
    data_size_     |-> 0,
    data_capacity_ |-> InitCapacity,
    data_          |-> [i \in 0 .. InitCapacity - 1 |-> EmptySlot(i)],
    dirty_         |-> << >> ]

\* size() that forgets the holes
size_counts_holes(P) == P.data_size_

\* size_t size() const { return data_size_ - dirty_.size(); }
\* (the unsigned difference wraps only if dirty_ has more entries than the
\* used range has slots; the model then shows a negative number)
size(P) == P.data_size_ - Len(P.dirty_)

\* bool is_empty() const { return data_size_ == 0; }
is_empty(P) == P.data_size_ = 0

\* is_valid that compares id_process only
is_valid_without_id(P, copy) ==
  IF P.data_size_ <= copy.index_
    THEN FALSE
    ELSE P.data_[copy.index_].id_process = copy.id_process

\* is_valid that takes size() for the used range
is_valid_within_size(P, copy) ==
  IF P.data_size_ - Len(P.dirty_) <= copy.index_
    THEN FALSE
    ELSE /\ P.data_[copy.index_].id = copy.id
         /\ P.data_[copy.index_].id_process = copy.id_process

\* is_valid that takes a copy from beyond the used range for valid
is_valid_beyond_size(P, copy) ==
  IF P.data_size_ <= copy.index_
    THEN TRUE
    ELSE /\ P.data_[copy.index_].id = copy.id
         /\ P.data_[copy.index_].id_process = copy.id_process

\* bool is_valid(const ParticleData &copy) const
is_valid(P, copy) ==
  IF P.data_size_ <= copy.index_
    THEN FALSE
    ELSE /\ P.data_[copy.index_].id = copy.id
         /\ P.data_[copy.index_].id_process = copy.id_process

\* Reading data_[i] for an i outside of the allocation is undefined.
OutOfBounds == -1

\* the loop "while (ptr->hole_) ++ptr" of begin() and operator++
RECURSIVE skip_holes(_, _)
skip_holes(P, i) ==
  IF i >= P.data_capacity_ THEN OutOfBounds
  ELSE IF P.data_[i].hole_ THEN skip_holes(P, i + 1)
  ELSE i

\* iterator begin()
begin(P) == skip_holes(P, 0)

\* end() that points one entry further
end_past_used(P) == P.data_size_ + 1

\* iterator end() { return &data_[data_size_]; }
end(P) == P.data_size_

\* operator++ that does not skip the holes
increment_onto_holes(P, it) ==
  IF it + 1 >= P.data_capacity_ THEN OutOfBounds ELSE it + 1

\* GenericIterator &operator++()
increment(P, it) == skip_holes(P, it + 1)

\* for (auto it = begin(); it != end(); ++it): the slots the loop visits, in
\* the order it visits them; a walk that leaves the allocation ends in
\* OutOfBounds.
RECURSIVE iterate(_, _)
iterate(P, it) ==
  IF it = end(P) THEN << >>
  ELSE IF it = OutOfBounds THEN << OutOfBounds >>
  ELSE << it >> \o iterate(P, increment(P, it))

visited(P) == iterate(P, begin(P))

\* the loop "do { --ptr_; } while (ptr_->hole_)" of operator--; a walk that
\* goes below data_[0] ends in OutOfBounds
RECURSIVE skip_holes_back(_, _)
skip_holes_back(P, i) ==
  IF i < 0 THEN OutOfBounds
  ELSE IF P.data_[i].hole_ THEN skip_holes_back(P, i - 1)
  ELSE i

\* operator-- that does not skip the holes
decrement_onto_holes(P, it) ==
  IF it - 1 < 0 THEN OutOfBounds ELSE it - 1

\* GenericIterator &operator--()
decrement(P, it) == skip_holes_back(P, it - 1)

\* ParticleData &front() { return *begin(); }, as the slot it refers to
front(P) == begin(P)

\* ParticleData &back() { return *(--end()); }, as the slot it refers to
back(P) == decrement(P, end(P))

\* for (auto it = end(); it != begin();) { --it; ... }: the slots the loop
\* visits, in the order it visits them
RECURSIVE iterate_back(_, _)
iterate_back(P, it) ==
  IF it = begin(P) THEN << >>
  ELSE LET prev == decrement(P, it)
       IN  IF prev = OutOfBounds THEN << OutOfBounds >>
           ELSE << prev >> \o iterate_back(P, prev)

visited_back(P) == iterate_back(P, end(P))

\* copy_to_vector that never looks at dirty_
copy_to_vector_without_check(P) ==
  [k \in 1 .. P.data_size_ |-> P.data_[k - 1]]

\* ParticleList copy_to_vector() const
copy_to_vector(P) ==
  IF P.dirty_ = << >>
    THEN [k \in 1 .. P.data_size_ |-> P.data_[k - 1]]
    ELSE LET v == visited(P)
         IN  [k \in 1 .. Len(v) |-> P.data_[v[k]]]

(***************************************************************************)
(* Particles: the operations whose bodies are in particles.cc.             *)
(***************************************************************************)
\* increase_capacity that copies the entries in as new particles
increase_capacity_new_ids(P, new_capacity) ==
  [P EXCEPT !.data_capacity_ = new_capacity,
            !.id_max_ = @ + P.data_size_,
            !.data_ = [i \in 0 .. new_capacity - 1 |->
                         IF i < P.data_size_
                           THEN [P.data_[i] EXCEPT !.id = P.id_max_ + 1 + i]
                           ELSE EmptySlot(i)]]

\* void increase_capacity(unsigned new_capacity): a larger array that holds
\* the old entries unchanged; growth allocates no identity.
increase_capacity(P, new_capacity) ==
  [P EXCEPT !.data_capacity_ = new_capacity,
            !.data_ = [i \in 0 .. new_capacity - 1 |->
                         IF i < P.data_capacity_ THEN P.data_[i]
                                                 ELSE EmptySlot(i)]]

\* void ensure_capacity(unsigned to_add): the entry at end() has to exist
\* after to_add more entries are in use.
ensure_capacity(P, to_add) ==
  IF P.data_size_ + to_add >= P.data_capacity_
    THEN increase_capacity(P, (P.data_capacity_ + to_add) * 2)
    ELSE P

\* copy_in that copies the id of from as well
copy_in_with_id(P, i, from) ==
  [P EXCEPT !.id_max_ = @ + 1,
            !.data_[i].id = from.id,
            !.data_[i].id_process = from.id_process]

\* void copy_in(ParticleData &to, const ParticleData &from), to = data_[i]:
\* the next id; id_process, type, momentum and position of from; index_ and
\* hole_ as they are.
copy_in(P, i, from) ==
  [P EXCEPT !.id_max_ = @ + 1,
            !.data_[i].id = P.id_max_ + 1,
            !.data_[i].id_process = from.id_process]

Min(S) == CHOOSE x \in S : \A y \in S : x <= y

Range(s) == { s[k] : k \in 1 .. Len(s) }

\* s without its first entry equal to x
RECURSIVE Without(_, _)
Without(s, x) ==
  IF s = << >> THEN << >>
  ELSE IF Head(s) = x THEN Tail(s)
  ELSE << Head(s) >> \o Without(Tail(s), x)

\* insert that reuses the hole published last
insert_into_last_hole(P, p) ==
  IF P.dirty_ = << >>
    THEN LET Q == ensure_capacity(P, 1)
         IN  copy_in([Q EXCEPT !.data_size_ = @ + 1], Q.data_size_, p)
    ELSE LET offset == P.dirty_[Len(P.dirty_)]
             Q == [P EXCEPT !.dirty_ = SubSeq(@, 1, Len(@) - 1),
                            !.data_[offset].hole_ = FALSE]
         IN  copy_in(Q, offset, p)

\* void insert(const ParticleData &p)
insert(P, p) ==
  IF P.dirty_ = << >>
    THEN LET Q == ensure_capacity(P, 1)
         IN  copy_in([Q EXCEPT !.data_size_ = @ + 1], Q.data_size_, p)
    ELSE LET offset == Min(Range(P.dirty_))
             Q == [P EXCEPT !.dirty_ = Without(@, offset),
                            !.data_[offset].hole_ = FALSE]
         IN  copy_in(Q, offset, p)

\* void remove(const ParticleData &p), behind its assert(is_valid(p))
remove(P, p) ==
  [P EXCEPT !.data_[p.index_].id = -1,
            !.data_[p.index_].hole_ = TRUE,
            !.dirty_ = Append(@, p.index_)]

RECURSIVE remove_all(_, _)
remove_all(P, to_remove) ==
  IF to_remove = << >> THEN P
  ELSE remove_all(remove(P, Head(to_remove)), Tail(to_remove))

RECURSIVE insert_all(_, _)
insert_all(P, to_add) ==
  IF to_add = << >> THEN P
  ELSE insert_all(insert(P, Head(to_add)), Tail(to_add))

\* void replace(const ParticleList &to_remove, const ParticleList &to_add)
replace(P, to_remove, to_add) ==
  insert_all(remove_all(P, to_remove), to_add)

\* void reset()
reset(P) ==
  [P EXCEPT !.id_max_ = -1,
            !.data_size_ = 0,
            !.dirty_ = << >>,
            !.data_ = [i \in 0 .. P.data_capacity_ - 1 |-> EmptySlot(i)]]

(***************************************************************************)
(* The callers of the store.                                               *)
(***************************************************************************)
Store == particles_

\* the slots of the used range that hold a particle
live(P) == { i \in 0 .. P.data_size_ - 1 : ~P.data_[i].hole_ }

\* what a caller can hand to insert: a record of its own or a copy it holds
Insertable == NewParticles \cup handles

\* the lists of pairwise different entries of S with at most n entries
RECURSIVE Lists(_, _)
Lists(S, n) ==
  IF n = 0 THEN { << >> }
  ELSE LET shorter == Lists(S, n - 1)
       IN  shorter \cup { Append(l, x) : l \in shorter, x \in S }

Distinct(l) == \A j, k \in 1 .. Len(l) : j # k => l[j] # l[k]

Called(op, to_remove, to_add) ==
  call' = [op |-> op, to_remove |-> to_remove, to_add |-> to_add]

NoCall == [op |-> "none", to_remove |-> << >>, to_add |-> << >>]

Init ==
  /\ particles_ = NewStore
  /\ debug_build \in BOOLEAN
  /\ status = "ok"
  /\ handles = {}
  /\ removed = {}
  /\ call = NoCall
  /\ n_insert = 0
  /\ n_remove = 0
  /\ n_reset = 0
  /\ before_reset = {}
  /\ labclock = 0
  /\ pc = "idle"
  /\ actions = << >>
  /\ cursor = 0
  /\ interactions_total = 0
  /\ visits = << >>
  /\ n_proposed = 0
  /\ outputs = << >>
  /\ err_msg = ""
  /\ NoScatterAction

\* ParticleData copy = *it, for an iterator it of begin() .. end()
TakeHandle ==
  /\ status = "ok"
  /\ Cardinality(handles) < MaxHandles
  /\ \E k \in 1 .. Len(visited(Store)) :
       /\ visited(Store)[k] # OutOfBounds
       /\ handles' = handles \cup { Store.data_[visited(Store)[k]] }
  /\ Called("copy", << >>, << >>)
  /\ UNCHANGED <<particles_, debug_build, status, removed,
                 n_insert, n_remove, n_reset, before_reset>>
  /\ UNCHANGED loopvars
  /\ UNCHANGED scattervars

\* particles_.insert(p)
Insert ==
  /\ status = "ok"
  /\ Store.id_max_ < MaxId
  /\ \E p \in Insertable :
       /\ particles_' = insert(Store, p)
       /\ Called("insert", << >>, << p >>)
  /\ n_insert' = n_insert + 1
  /\ UNCHANGED <<debug_build, status, handles, removed, n_remove, n_reset,
                 before_reset>>
  /\ UNCHANGED loopvars
  /\ UNCHANGED scattervars

\* particles_.remove(p) with a copy the caller holds.  The validity of p is
\* asserted, so it is only enforced in DEBUG builds.
Remove ==
  /\ status = "ok"
  /\ \E p \in handles :
       /\ Called("remove", << p >>, << >>)
       /\ IF is_valid(Store, p)
            THEN /\ particles_' = remove(Store, p)
                 /\ status' = "ok"
                 /\ removed' = removed \cup { p }
                 /\ n_remove' = n_remove + 1
            ELSE IF debug_build
              THEN /\ status' = "assert_failed"
                   /\ UNCHANGED <<particles_, removed, n_remove>>
              ELSE /\ particles_' = remove(Store, p)
                   /\ status' = "contract_violated"
                   /\ removed' = removed \cup { p }
                   /\ n_remove' = n_remove + 1
  /\ UNCHANGED <<debug_build, handles, n_insert, n_reset, before_reset>>
  /\ UNCHANGED loopvars
  /\ UNCHANGED scattervars

\* particles_.replace(to_remove, to_add) with valid, pairwise different
\* copies in to_remove
Replace ==
  /\ status = "ok"
  /\ \E to_remove \in Lists(handles, 2), to_add \in Lists(Insertable, MaxAdd) :
       /\ Distinct(to_remove)
       /\ \A k \in 1 .. Len(to_remove) : is_valid(Store, to_remove[k])
       /\ Len(to_remove) + Len(to_add) > 0
       /\ Store.id_max_ + Len(to_add) <= MaxId
       /\ particles_' = replace(Store, to_remove, to_add)
       /\ Called("replace", to_remove, to_add)
       /\ removed' = removed \cup Range(to_remove)
       /\ n_insert' = n_insert + Len(to_add)
       /\ n_remove' = n_remove + Len(to_remove)
  /\ UNCHANGED <<debug_build, status, handles, n_reset, before_reset>>
  /\ UNCHANGED loopvars
  /\ UNCHANGED scattervars

\* particles_.reset()
Reset ==
  /\ status = "ok"
  /\ n_reset < MaxResets
  /\ particles_' = reset(Store)
  /\ Called("reset", << >>, << >>)
  /\ removed' = {}
  /\ n_insert' = 0
  /\ n_remove' = 0
  /\ n_reset' = n_reset + 1
  /\ before_reset' = before_reset \cup handles
  /\ UNCHANGED <<debug_build, status, handles>>
  /\ UNCHANGED loopvars
  /\ UNCHANGED scattervars

Next == TakeHandle \/ Insert \/ Remove \/ Replace \/ Reset

Spec == Init /\ [][Next]_vars

(***************************************************************************)
(* Properties of the store.                                                *)
(***************************************************************************)
\* every operation so far was called as its documentation demands
Conforming == status # "contract_violated"

\* the ascending list of the members of a set of slots
RECURSIVE Ascending(_)
Ascending(S) ==
  IF S = {} THEN << >> ELSE << Min(S) >> \o Ascending(S \ { Min(S) })

\* the copies a caller obtains from the live slots of P
copies(P) == { P.data_[i] : i \in live(P) }

\* C2: after any sequence of inserts and removes, size() is the number of
\* inserts minus the number of removes, which is the number of slots of the
\* used range that are not holes.
C2_SizeCountsLive ==
  Conforming =>
    /\ size(Store) = n_insert - n_remove
    /\ size(Store) = Cardinality(live(Store))

C2_Witness ==
  /\ status = "ok"
  /\ n_insert >= 2
  /\ n_remove >= 1
  /\ Store.dirty_ # << >>
  /\ size(Store) = 1

\* C3: iterating from begin() to end() visits exactly the slots of the used
\* range that are not holes, each once and in slot order, and yields no
\* record that was removed.
C3_IterationSkipsHoles ==
  Conforming =>
    /\ visited(Store) = Ascending(live(Store))
    /\ \A k \in 1 .. Len(visited(Store)) :
         /\ visited(Store)[k] # OutOfBounds
         /\ \A h \in removed :
              ~ ( /\ h.index_ = visited(Store)[k]
                  /\ h.id = Store.data_[visited(Store)[k]].id )

C3_Witness ==
  /\ status = "ok"
  /\ Store.data_size_ >= 3
  /\ Store.data_[0].hole_
  /\ ~Store.data_[1].hole_
  /\ Store.data_[2].hole_
  /\ visited(Store) = << 1 >>

\* C4: once a handle was removed (by remove or as an entry of to_remove), it
\* is not valid in any later state, whatever is inserted, removed or replaced
\* afterwards, also when its slot is used again.
C4_RemovedStaysInvalid ==
  \A h \in removed : ~is_valid(Store, h)

C4_Witness ==
  /\ status = "ok"
  /\ \E h \in removed :
       /\ h.index_ \in live(Store)
       /\ Store.data_[h.index_].id_process = h.id_process

\* C5: remove(h) with a valid h changes the slot of h only: every other slot
\* keeps its contents and its place, and every other copy that was valid
\* before the call is valid after it.
C5_RemoveFrame ==
  [][ (call'.op = "remove" /\ status' = "ok") =>
        LET h == call'.to_remove[1] IN
          /\ particles_'.data_size_ = Store.data_size_
          /\ particles_'.data_capacity_ = Store.data_capacity_
          /\ particles_'.data_[h.index_].hole_
          /\ \A i \in 0 .. Store.data_capacity_ - 1 :
               i # h.index_ => particles_'.data_[i] = Store.data_[i]
          /\ \A c \in (copies(Store) \cup handles) \ { h } :
               is_valid(Store, c) => is_valid(particles_', c)
    ]_vars

C5_Witness ==
  /\ call.op = "remove"
  /\ status = "ok"
  /\ \E i, j \in live(Store) : i < call.to_remove[1].index_
                               /\ call.to_remove[1].index_ < j

\* C6 as stated: remove(h) with an h that is not valid fails with an error and
\* leaves the store unchanged.
C6_InvalidRemoveFails ==
  [][ (call'.op = "remove" /\ ~is_valid(Store, call'.to_remove[1])) =>
        /\ status' = "assert_failed"
        /\ particles_' = Store
    ]_vars

\* C6 amended: in a DEBUG build, remove(h) with an h that was removed before
\* stops at the assertion and leaves the store unchanged.
C6_InvalidRemoveAsserts ==
  [][ (call'.op = "remove" /\ debug_build
         /\ (call'.to_remove[1] \in removed
               \/ ~is_valid(Store, call'.to_remove[1]))) =>
        /\ status' = "assert_failed"
        /\ particles_' = Store
    ]_vars

C6_Witness ==
  /\ call.op = "remove"
  /\ debug_build
  /\ status = "assert_failed"
  /\ call.to_remove[1] \in removed
  /\ call.to_remove[1].index_ \in live(Store)

\* C7: insert, also when it makes the capacity grow, leaves every copy that
\* was valid valid, leaves every record that was there in its slot with its
\* identity, and allocates one identity, that of the new particle.
C7_InsertFrame ==
  [][ call'.op = "insert" =>
        /\ \A c \in copies(Store) \cup handles :
             is_valid(Store, c) => is_valid(particles_', c)
        /\ \A i \in live(Store) : particles_'.data_[i] = Store.data_[i]
        /\ particles_'.id_max_ = Store.id_max_ + 1
        /\ \E i \in live(particles_') \ live(Store) :
             /\ particles_'.data_[i].id = particles_'.id_max_
             /\ live(particles_') = live(Store) \cup { i }
    ]_vars

C7_Witness ==
  /\ call.op = "insert"
  /\ Store.data_capacity_ > InitCapacity
  /\ Store.data_size_ = InitCapacity
  /\ Store.dirty_ = << >>
  /\ \E h \in handles : is_valid(Store, h) /\ h.index_ = 0

\* C8: insert puts the new record into the hole with the lowest index when
\* there is a hole and else behind the used range; size() grows by one.
C8_InsertPlace ==
  [][ call'.op = "insert" =>
        LET holes == { i \in 0 .. Store.data_size_ - 1 : Store.data_[i].hole_ }
            place == IF holes # {} THEN Min(holes) ELSE Store.data_size_
        IN  /\ live(particles_') = live(Store) \cup { place }
            /\ place \notin live(Store)
            /\ particles_'.data_[place].id_process = call'.to_add[1].id_process
            /\ particles_'.data_size_ =
                 IF holes # {} THEN Store.data_size_ ELSE Store.data_size_ + 1
            /\ particles_'.data_size_ < particles_'.data_capacity_
            /\ size(particles_') = size(Store) + 1
    ]_vars

C8_Witness ==
  /\ call.op = "insert"
  /\ Store.data_size_ = 2
  /\ Store.dirty_ = << 1 >>
  /\ 0 \in live(Store)
  /\ Store.data_[0].id = Store.id_max_

\* C9: replace(to_remove, to_add) with valid entries in to_remove leaves no
\* entry of to_remove valid, changes size() by |to_add| - |to_remove| and
\* leaves every record that is not in to_remove as it was.
C9_Replace ==
  [][ call'.op = "replace" =>
        LET gone == { call'.to_remove[k].index_ :
                        k \in 1 .. Len(call'.to_remove) }
        IN  /\ \A k \in 1 .. Len(call'.to_remove) :
                 ~is_valid(particles_', call'.to_remove[k])
            /\ size(particles_') =
                 size(Store) + Len(call'.to_add) - Len(call'.to_remove)
            /\ \A i \in live(Store) \ gone :
                 particles_'.data_[i] = Store.data_[i]
            /\ Cardinality(live(particles_') \ (live(Store) \ gone)) =
                 Len(call'.to_add)
    ]_vars

C9_Witness ==
  /\ call.op = "replace"
  /\ Len(call.to_remove) = 2
  /\ Len(call.to_add) = 1
  /\ size(Store) = 1
  /\ Len(Store.dirty_) = 1

\* C10: the live records have pairwise different identities, and every new
\* particle gets an identity above all that were handed out since the last
\* reset.
C10_Identities ==
  [][ /\ \A i, j \in live(particles_') :
           i # j => particles_'.data_[i].id # particles_'.data_[j].id
      /\ \A i \in live(particles_') :
           particles_'.data_[i].id <= particles_'.id_max_
      /\ call'.op \in { "insert", "replace" } =>
           \A i \in live(particles_') :
             (i \notin live(Store) \/ particles_'.data_[i] # Store.data_[i]) =>
               /\ particles_'.data_[i].id > Store.id_max_
               /\ \A h \in removed : particles_'.data_[i].id > h.id
               /\ \A j \in live(Store) :
                    particles_'.data_[i].id > Store.data_[j].id
    ]_vars

C10_Witness ==
  /\ call.op = "replace"
  /\ Len(call.to_add) >= 1
  /\ removed # {}
  /\ \E i, j \in live(Store) :
       /\ i < j
       /\ Store.data_[i].id > Store.data_[j].id

\* C11: a handle taken before reset() is never reported valid by is_valid
\* after the reset, whatever is inserted after it, although reset() restarts
\* the id counter.
C11_ResetInvalidatesHandles ==
  Conforming => \A h \in before_reset : ~is_valid(Store, h)

\* C12: the slot at end() lies within the allocation and is no hole, so the
\* loops of begin() and operator++ that skip the holes stop at or before
\* end(), from every slot of the used range, also for an empty store and for
\* a store whose used slots are all holes.
C12_EndIsNoHole ==
  Conforming =>
    /\ end(Store) < Store.data_capacity_
    /\ ~Store.data_[end(Store)].hole_
    /\ begin(Store) # OutOfBounds
    /\ begin(Store) <= end(Store)
    /\ \A it \in 0 .. Store.data_size_ - 1 :
         /\ increment(Store, it) # OutOfBounds
         /\ increment(Store, it) <= end(Store)
    /\ (size(Store) = 0 => begin(Store) = end(Store))

C12_Witness ==
  /\ status = "ok"
  /\ Store.data_size_ = 2
  /\ Len(Store.dirty_) = 2
  /\ Store.data_[0].hole_
  /\ Store.data_[1].hole_
  /\ begin(Store) = end(Store)

C37_EmptyIffNoParticle ==
  Conforming => (is_empty(Store) <=> size(Store) = 0)

\* C38: copy_to_vector returns the particles in the order of the iteration
\* from begin() to end(), on the path for a store without holes as on the
\* path for a store with holes: size() entries, no hole among them.
C38_CopyToVector ==
  Conforming =>
    LET v == visited(Store)
        copied == copy_to_vector(Store)
    IN  /\ Len(copied) = Len(v)
        /\ \A k \in 1 .. Len(v) : copied[k] = Store.data_[v[k]]
        /\ Len(copied) = size(Store)
        /\ \A k \in 1 .. Len(copied) : ~copied[k].hole_

C38_Witness ==
  /\ Conforming
  /\ Store.dirty_ = << >>
  /\ n_remove > 0
  /\ Len(copy_to_vector(Store)) = 2
  /\ copy_to_vector(Store)[1].id > copy_to_vector(Store)[2].id

\* the highest entry of a set of numbers
Highest(S) == CHOOSE x \in S : \A y \in S : y <= x

\* C39: the iteration from end() back to begin() visits the particles of the
\* store, and them only, from the last to the first, and never goes below
\* data_[0], whether or not data_[0] and the slots behind it are holes; if
\* the store holds a particle, back() is the one in the highest slot.
C39_BackwardIteration ==
  Conforming =>
    LET v == visited(Store)
        b == visited_back(Store)
    IN  /\ Len(b) = Len(v)
        /\ \A k \in 1 .. Len(b) : b[k] = v[Len(v) + 1 - k]
        /\ \A k \in 1 .. Len(b) : b[k] \in live(Store)
        /\ live(Store) # {} => back(Store) = Highest(live(Store))

C39_Witness ==
  /\ Conforming
  /\ Store.data_size_ = 3
  /\ Store.data_[0].hole_
  /\ ~Store.data_[1].hole_
  /\ Store.data_[2].hole_
  /\ visited_back(Store) = << 1 >>
  /\ back(Store) = 1
  /\ front(Store) = 1

(***************************************************************************)
(* Actions and the timestep loop, Experiment::run_time_evolution.          *)
(* An Action is [seq, kind, incoming, time, step]: seq is its place in the  *)
(* list the finders produced, incoming are the copies the finder took,     *)
(* time is its time of execution and step the timestep that proposed it.   *)
(***************************************************************************)
\* the state initialize_new_event leaves: reset(), then the initial
\* conditions insert their particles
InitialParticles ==
  insert_all(reset(NewStore),
             [k \in 1 .. NumInitial |->
                [id |-> -1, id_process |-> -1, index_ |-> NoIndex,
                 hole_ |-> FALSE]])

\* what the finders can propose: a decay of one particle, a collision of two,
\* in the order in which the finders walk the store
Candidates(P) ==
  LET v == visited(P)
      decays == [k \in 1 .. Len(v) |->
                   [kind |-> "decay", incoming |-> << P.data_[v[k]] >>]]
      pairs == { <<i, j>> \in live(P) \X live(P) : i < j }
      RECURSIVE scatters(_)
      scatters(S) ==
        IF S = {} THEN << >>
        ELSE LET first == CHOOSE x \in S : \A y \in S :
                            x[1] < y[1] \/ (x[1] = y[1] /\ x[2] <= y[2])
             IN  << [kind |-> "scatter",
                     incoming |-> << P.data_[first[1]], P.data_[first[2]] >>] >>
                 \o scatters(S \ { first })
  IN  decays \o scatters(pairs)

\* the candidates the finders return, with the times they computed: times[k]
\* is the time of execution of candidate k, for the k the finders propose
RECURSIVE Proposed(_, _, _, _)
Proposed(cands, times, k, seq) ==
  IF k > Len(cands) THEN << >>
  ELSE IF k \notin DOMAIN times THEN Proposed(cands, times, k + 1, seq)
  ELSE << [seq |-> seq, kind |-> cands[k].kind,
           incoming |-> cands[k].incoming, time |-> times[k],
           step |-> labclock] >>
       \o Proposed(cands, times, k + 1, seq + 1)

\* bool Action::operator<(const Action &rhs) const
action_less(a, b) == a.time < b.time

\* a list that is left in the order of the finders
Sorted_not_at_all(l) == { l }

\* the results std::sort may leave: the orders of l in which no action stands
\* behind one that is less than it (std::sort is not stable)
Sorted(l) ==
  { [k \in 1 .. Len(l) |-> l[perm[k]]] :
      perm \in { f \in [1 .. Len(l) -> 1 .. Len(l)] :
                   /\ \A j, k \in 1 .. Len(l) : j # k => f[j] # f[k]
                   /\ \A j, k \in 1 .. Len(l) :
                        j < k => ~action_less(l[f[k]], l[f[j]]) } }

\* is_valid that looks at the first incoming particle only
action_is_valid_first_only(P, a) == is_valid(P, a.incoming[1])

\* bool Action::is_valid(const Particles &particles) const
action_is_valid(P, a) ==
  \A k \in 1 .. Len(a.incoming) : is_valid(P, a.incoming[k])

\* the final states generate_final_state can leave in outgoing_particles_:
\* two particles for a decay, one or two for a collision, stamped with the
\* number of the process that makes them
Outgoing(a, id_process) ==
  LET made == [id |-> -1, id_process |-> id_process, index_ |-> NoIndex,
               hole_ |-> FALSE]
  IN  IF a.kind = "decay" THEN { << made, made >> }
      ELSE { << made >>, << made, made >> }

\* the loop that ends when the clock reaches the end time
Tick_until_end_time ==
  /\ pc = "tick"
  /\ labclock' = labclock + 1
  /\ pc' = IF labclock + 1 >= EndTime THEN "done" ELSE "find"
  /\ UNCHANGED <<actions, cursor, interactions_total, visits, n_proposed,
                 outputs, err_msg>>
  /\ UNCHANGED storevars
  /\ UNCHANGED scattervars

\* while (!(++parameters_.labclock > end_time_))
Tick ==
  /\ pc = "tick"
  /\ labclock' = labclock + 1
  /\ pc' = IF labclock + 1 > EndTime THEN "done" ELSE "find"
  /\ UNCHANGED <<actions, cursor, interactions_total, visits, n_proposed,
                 outputs, err_msg>>
  /\ UNCHANGED storevars
  /\ UNCHANGED scattervars

\* (1.a) - (1.c): find the possible decays and collisions, sort them by time
Find ==
  /\ pc = "find"
  /\ LET cands == Candidates(Store) IN
       \E chosen \in SUBSET (1 .. Len(cands)) :
         /\ n_proposed + Cardinality(chosen) <= MaxActions
         /\ n_proposed' = n_proposed + Cardinality(chosen)
         /\ \E times \in [chosen -> 1 .. MaxTime] :
              actions' \in Sorted(Proposed(cands, times, 1, 1))
  /\ cursor' = 1
  /\ visits' = << >>
  /\ pc' = "act"
  /\ UNCHANGED <<labclock, interactions_total, outputs, err_msg>>
  /\ UNCHANGED storevars
  /\ UNCHANGED scattervars

\* what the loop notes of a visit to an action: which action, scheduled at
\* which time, proposed in which timestep, visited in which, and the outcome
Visit(action, verdict) ==
  [seq |-> action.seq, time |-> action.time, step |-> action.step,
   at |-> labclock, verdict |-> verdict]

\* the loop with perform called on every action, valid or not
Act_without_validation ==
  /\ pc = "act"
  /\ cursor <= Len(actions)
  /\ LET action == actions[cursor] IN
       \E outgoing \in Outgoing(action, interactions_total) :
         /\ particles_' = replace(Store, action.incoming, outgoing)
         /\ Called("replace", action.incoming, outgoing)
         /\ removed' = removed \cup Range(action.incoming)
         /\ n_insert' = n_insert + Len(outgoing)
         /\ n_remove' = n_remove + Len(action.incoming)
         /\ interactions_total' = interactions_total + 1
         /\ visits' = Append(visits, Visit(action, "performed"))
         /\ outputs' = Append(outputs, [incoming |-> action.incoming,
                                        outgoing |-> outgoing])
  /\ cursor' = cursor + 1
  /\ UNCHANGED <<labclock, pc, actions, n_proposed, err_msg>>
  /\ UNCHANGED <<debug_build, status, handles, n_reset, before_reset>>
  /\ UNCHANGED scattervars

\* the loop with a counter that counts the visits, not the interactions
Act_counts_visits ==
  /\ pc = "act"
  /\ cursor <= Len(actions)
  /\ LET action == actions[cursor] IN
       IF action_is_valid(Store, action)
         THEN \E outgoing \in Outgoing(action, interactions_total) :
                /\ particles_' = replace(Store, action.incoming, outgoing)
                /\ Called("replace", action.incoming, outgoing)
                /\ removed' = removed \cup Range(action.incoming)
                /\ n_insert' = n_insert + Len(outgoing)
                /\ n_remove' = n_remove + Len(action.incoming)
                /\ visits' = Append(visits, Visit(action, "performed"))
                /\ outputs' = Append(outputs, [incoming |-> action.incoming,
                                               outgoing |-> outgoing])
         ELSE /\ visits' = Append(visits, Visit(action, "rejected"))
              /\ UNCHANGED <<particles_, call, removed, n_insert, n_remove,
                             outputs>>
  /\ interactions_total' = interactions_total + 1
  /\ cursor' = cursor + 1
  /\ UNCHANGED <<labclock, pc, actions, n_proposed, err_msg>>
  /\ UNCHANGED <<debug_build, status, handles, n_reset, before_reset>>
  /\ UNCHANGED scattervars

\* the loop that hands the rejected actions to the outputs as well
Act_reports_rejected ==
  /\ pc = "act"
  /\ cursor <= Len(actions)
  /\ LET action == actions[cursor] IN
       IF action_is_valid(Store, action)
         THEN \E outgoing \in Outgoing(action, interactions_total) :
                /\ particles_' = replace(Store, action.incoming, outgoing)
                /\ Called("replace", action.incoming, outgoing)
                /\ removed' = removed \cup Range(action.incoming)
                /\ n_insert' = n_insert + Len(outgoing)
                /\ n_remove' = n_remove + Len(action.incoming)
                /\ interactions_total' = interactions_total + 1
                /\ visits' = Append(visits, Visit(action, "performed"))
                /\ outputs' = Append(outputs, [incoming |-> action.incoming,
                                               outgoing |-> outgoing])
         ELSE /\ visits' = Append(visits, Visit(action, "rejected"))
              /\ outputs' = Append(outputs, [incoming |-> action.incoming,
                                             outgoing |-> << >>])
              /\ UNCHANGED <<particles_, call, removed, n_insert, n_remove,
                             interactions_total>>
  /\ cursor' = cursor + 1
  /\ UNCHANGED <<labclock, pc, actions, n_proposed, err_msg>>
  /\ UNCHANGED <<debug_build, status, handles, n_reset, before_reset>>
  /\ UNCHANGED scattervars

\* the loop that does not tell the outputs of an interaction
Act_without_outputs ==
  /\ pc = "act"
  /\ cursor <= Len(actions)
  /\ LET action == actions[cursor] IN
       IF action_is_valid(Store, action)
         THEN \E outgoing \in Outgoing(action, interactions_total) :
                /\ particles_' = replace(Store, action.incoming, outgoing)
                /\ Called("replace", action.incoming, outgoing)
                /\ removed' = removed \cup Range(action.incoming)
                /\ n_insert' = n_insert + Len(outgoing)
                /\ n_remove' = n_remove + Len(action.incoming)
                /\ interactions_total' = interactions_total + 1
                /\ visits' = Append(visits, Visit(action, "performed"))
                /\ UNCHANGED outputs
         ELSE /\ visits' = Append(visits, Visit(action, "rejected"))
              /\ UNCHANGED <<particles_, call, removed, n_insert, n_remove,
                             interactions_total, outputs>>
  /\ cursor' = cursor + 1
  /\ UNCHANGED <<labclock, pc, actions, n_proposed, err_msg>>
  /\ UNCHANGED <<debug_build, status, handles, n_reset, before_reset>>
  /\ UNCHANGED scattervars

\* (2.a), one round of the loop over the actions: the action is performed if
\* it is still valid, and the outputs are told of the interaction; it is
\* passed over if not
Act ==
  /\ pc = "act"
  /\ cursor <= Len(actions)
  /\ LET action == actions[cursor] IN
       IF action_is_valid(Store, action)
         THEN \E outgoing \in Outgoing(action, interactions_total) :
                /\ particles_' = replace(Store, action.incoming, outgoing)
                /\ Called("replace", action.incoming, outgoing)
                /\ removed' = removed \cup Range(action.incoming)
                /\ n_insert' = n_insert + Len(outgoing)
                /\ n_remove' = n_remove + Len(action.incoming)
                /\ interactions_total' = interactions_total + 1
                /\ visits' = Append(visits, Visit(action, "performed"))
                /\ outputs' = Append(outputs, [incoming |-> action.incoming,
                                               outgoing |-> outgoing])
         ELSE /\ visits' = Append(visits, Visit(action, "rejected"))
              /\ UNCHANGED <<particles_, call, removed, n_insert, n_remove,
                             interactions_total, outputs>>
  /\ cursor' = cursor + 1
  /\ UNCHANGED <<labclock, pc, actions, n_proposed, err_msg>>
  /\ UNCHANGED <<debug_build, status, handles, n_reset, before_reset>>
  /\ UNCHANGED scattervars

\* the messages conserved_initial_.report_deviations(particles_) can return:
\* none, or the quantities that deviate from those of the initial state
report_deviations == { "", "Deviation" }

\* the timestep that propagates whenever the loop over the actions stands
Propagate_between_actions ==
  /\ pc = "act"
  /\ err_msg' \in report_deviations
  /\ pc' = IF err_msg' # "" THEN "failed" ELSE "tick"
  /\ actions' = << >>
  /\ UNCHANGED <<labclock, cursor, interactions_total, visits, n_proposed,
                 outputs>>
  /\ UNCHANGED storevars
  /\ UNCHANGED scattervars

\* the timestep that goes on after a deviation
Propagate_logs_deviations ==
  /\ pc = "act"
  /\ cursor > Len(actions)
  /\ err_msg' \in report_deviations
  /\ pc' = "tick"
  /\ actions' = << >>
  /\ UNCHANGED <<labclock, cursor, interactions_total, visits, n_proposed,
                 outputs>>
  /\ UNCHANGED storevars
  /\ UNCHANGED scattervars

\* (3), (4) and the check of the conserved quantities, which throws if
\* report_deviations returns a message
Propagate ==
  /\ pc = "act"
  /\ cursor > Len(actions)
  /\ err_msg' \in report_deviations
  /\ pc' = IF err_msg' # "" THEN "failed" ELSE "tick"
  /\ actions' = << >>
  /\ UNCHANGED <<labclock, cursor, interactions_total, visits, n_proposed,
                 outputs>>
  /\ UNCHANGED storevars
  /\ UNCHANGED scattervars

LoopInit ==
  /\ particles_ = InitialParticles
  /\ debug_build \in BOOLEAN
  /\ status = "ok"
  /\ handles = {}
  /\ removed = {}
  /\ call = NoCall
  /\ n_insert = NumInitial
  /\ n_remove = 0
  /\ n_reset = 1
  /\ before_reset = {}
  /\ labclock = 0
  /\ pc = "tick"
  /\ actions = << >>
  /\ cursor = 0
  /\ interactions_total = 0
  /\ visits = << >>
  /\ n_proposed = 0
  /\ outputs = << >>
  /\ err_msg = ""
  /\ NoScatterAction

LoopNext == Tick \/ Find \/ Act \/ Propagate

LoopSpec == LoopInit /\ [][LoopNext]_vars

\* the loop runs on: the thread of run_time_evolution is never held up
\* the step of the loop from the finders to the range-for, which is the step
\* Find takes: no other step of the loop starts at "find"
FindReturns == pc = "find" /\ pc' = "act"

FairLoopSpec ==
  /\ LoopInit
  /\ [][LoopNext]_vars
  /\ WF_vars(Tick)
  /\ WF_pc(FindReturns)
  /\ WF_vars(Act)
  /\ WF_vars(Propagate)

(***************************************************************************)
(* Properties of the timestep loop.                                        *)
(***************************************************************************)
\* the loop over the actions of this timestep has visited them all
AllVisited == pc = "act" /\ cursor > Len(actions)

shares_incoming(a, b) == Range(a.incoming) \cap Range(b.incoming) # {}

performed(k) == visits[k].verdict = "performed"

rejected(k) == visits[k].verdict = "rejected"

\* C1 as stated: of two actions of a timestep that share an incoming particle
\* and are scheduled at t1 < t2, the one at t1 is performed and the one at t2
\* fails is_valid and is not performed.
C1_EarlierActionWins ==
  AllVisited =>
    \A j, k \in 1 .. Len(actions) :
      (shares_incoming(actions[j], actions[k])
         /\ actions[j].time < actions[k].time) =>
        performed(j) /\ rejected(k)

\* C1 amended: of two such actions, the one at t1 is visited first; if no
\* action performed before it took one of its incoming particles, it is
\* performed, and the one at t2 then fails is_valid and is not performed.
C1_EarlierValidActionWins ==
  AllVisited =>
    \A j, k \in 1 .. Len(actions) :
      (shares_incoming(actions[j], actions[k])
         /\ actions[j].time < actions[k].time) =>
        /\ j < k
        /\ (\A m \in 1 .. j - 1 :
              performed(m) => ~shares_incoming(actions[m], actions[j]))
             => performed(j) /\ rejected(k)
        /\ ~(performed(j) /\ performed(k))

C1_Witness ==
  /\ AllVisited
  /\ Len(actions) = 2
  /\ actions[1].kind = "scatter"
  /\ actions[2].kind = "decay"
  /\ shares_incoming(actions[1], actions[2])
  /\ actions[1].time < actions[2].time
  /\ performed(1)
  /\ rejected(2)
  /\ Store.dirty_ # << >>

\* the step is a round of the loop over the actions
Visiting == pc = "act" /\ Len(visits') = Len(visits) + 1

\* the action a round of the loop looks at, and what the loop notes of it
visited_action == actions[cursor]

noted == visits'[Len(visits')]

\* the slot of the handle holds the identity and the creating action the
\* handle was copied with
same_record(P, h) ==
  /\ h.index_ < P.data_size_
  /\ P.data_[h.index_].id = h.id
  /\ P.data_[h.index_].id_process = h.id_process

\* C13: within a timestep the actions are visited in ascending order of their
\* time of execution: no action is visited, and so none is performed, after
\* an action with a strictly later time of execution.
C13_AscendingTimes ==
  /\ \A j, k \in 1 .. Len(visits) :
       j < k => visits[j].time <= visits[k].time
  /\ pc = "act" =>
       /\ Len(visits) = cursor - 1
       /\ \A m \in 1 .. Len(visits) : visits[m].seq = actions[m].seq

C13_Witness ==
  /\ Len(visits) = 2
  /\ visits[1].seq > visits[2].seq
  /\ visits[1].time < visits[2].time
  /\ performed(1)
  /\ performed(2)

\* C14: actions with equal time of execution are visited in the order in which
\* the finders produced them, the decays before the collisions.
C14_StableTies ==
  \A j, k \in 1 .. Len(visits) :
    (j < k /\ visits[j].time = visits[k].time) =>
      visits[j].seq < visits[k].seq

\* C15: perform is called on an action only in the round of the loop in which
\* is_valid returned true for it, at most once per action, and only in the
\* timestep that proposed the action.
C15_ActionLifecycle ==
  [][ /\ (interactions_total' # interactions_total \/ particles_' # particles_)
        => /\ Visiting
           /\ \A k \in 1 .. Len(visited_action.incoming) :
                is_valid(Store, visited_action.incoming[k])
           /\ noted = Visit(visited_action, "performed")
           /\ cursor' = cursor + 1
      /\ \A j, k \in 1 .. Len(visits') :
           j # k => visits'[j].seq # visits'[k].seq
      /\ \A m \in 1 .. Len(visits') : visits'[m].step = visits'[m].at
    ]_vars

C15_Witness ==
  /\ labclock = 2
  /\ Len(visits) = 2
  /\ performed(1)
  /\ rejected(2)
  /\ visits[1].step = 2
  /\ interactions_total = 2

\* C16: an action is performed if and only if every one of its incoming
\* handles is valid in the store when the loop reaches it: the slot holds the
\* identity and the creating action of the handle.  One stale handle is
\* enough to have the action rejected.
C16_ValidIffAllIncomingValid ==
  [][ Visiting =>
        ( noted.verdict = "performed"
            <=> \A k \in 1 .. Len(visited_action.incoming) :
                  same_record(Store, visited_action.incoming[k]) )
    ]_vars

C16_Witness ==
  /\ pc = "act"
  /\ cursor > 1
  /\ rejected(cursor - 1)
  /\ actions[cursor - 1].kind = "scatter"
  /\ same_record(Store, actions[cursor - 1].incoming[1])
  /\ ~same_record(Store, actions[cursor - 1].incoming[2])

\* C17: performing an action is one replace of its incoming particles by its
\* outgoing particles and adds one to the interaction counter, which so is
\* the number of actions performed in the event; the store is never seen
\* with the incoming particles removed and the outgoing ones not inserted.
C17_PerformFrame ==
  [][ /\ (Visiting /\ noted.verdict = "performed") =>
           LET done == outputs'[Len(outputs')] IN
             /\ Len(outputs') = Len(outputs) + 1
             /\ done.incoming = visited_action.incoming
             /\ particles_' = replace(Store, done.incoming, done.outgoing)
             /\ size(Store') = size(Store) - Len(done.incoming)
                                 + Len(done.outgoing)
             /\ \A k \in 1 .. Len(done.incoming) :
                  ~is_valid(Store', done.incoming[k])
             /\ interactions_total' = interactions_total + 1
      /\ interactions_total' - interactions_total =
           IF Visiting /\ noted.verdict = "performed" THEN 1 ELSE 0
      /\ size(Store') # size(Store) => Visiting /\ noted.verdict = "performed"
      /\ interactions_total' = Len(outputs')
    ]_vars

C17_Witness ==
  /\ interactions_total = 2
  /\ Len(visits) = 3
  /\ performed(1)
  /\ rejected(2)
  /\ performed(3)
  /\ Len(outputs) = 2
  /\ size(Store) >= 3

\* C18: an action that is_valid rejects is passed over: the store, the
\* interaction counter and the outputs stay as they are, no error is raised,
\* and the loop goes on to the next action.
C18_RejectFrame ==
  [][ (Visiting /\ noted.verdict = "rejected") =>
        /\ particles_' = particles_
        /\ interactions_total' = interactions_total
        /\ outputs' = outputs
        /\ status' = "ok"
        /\ pc' = "act"
        /\ actions' = actions
        /\ cursor' = cursor + 1
    ]_vars

C18_Witness ==
  /\ Len(visits) = 3
  /\ performed(1)
  /\ rejected(2)
  /\ performed(3)
  /\ Len(outputs) = 2
  /\ visits[3].time > visits[2].time

\* C31: a timestep runs its phases in one order: the finders collect the
\* candidates, the decays before the collisions, from the store as the
\* timestep finds it, and the list is sorted; then each action is validated
\* and performed or passed over; then, behind the last action, comes the one
\* propagation with the check of the conserved quantities.  Nothing is
\* propagated between two actions of a timestep.
C31_PhasesInOrder ==
  [][ /\ pc = "tick" =>
           /\ labclock' = labclock + 1
           /\ pc' \in { "find", "done" }
           /\ particles_' = particles_
      /\ pc = "find" =>
           /\ pc' = "act"
           /\ cursor' = 1
           /\ particles_' = particles_
           /\ labclock' = labclock
           /\ \A k \in 1 .. Len(actions') :
                /\ action_is_valid(Store, actions'[k])
                /\ actions'[k].step = labclock
           /\ \A j, k \in 1 .. Len(actions') :
                /\ (actions'[j].kind = "decay" /\ actions'[k].kind = "scatter")
                     => actions'[j].seq < actions'[k].seq
                /\ j < k => actions'[j].time <= actions'[k].time
      /\ (pc = "act" /\ pc' = "act") =>
           /\ cursor <= Len(actions)
           /\ cursor' = cursor + 1
           /\ Len(visits') = cursor
           /\ actions' = actions
           /\ labclock' = labclock
      /\ (pc = "act" /\ pc' # "act") =>
           /\ cursor > Len(actions)
           /\ Len(visits) = Len(actions)
           /\ pc' \in { "tick", "failed" }
           /\ particles_' = particles_
           /\ labclock' = labclock
      /\ pc \in { "find", "act", "tick" }
    ]_vars

C31_Witness ==
  /\ pc = "tick"
  /\ labclock = 2
  /\ Len(visits) = 2
  /\ performed(1)
  /\ performed(2)
  /\ visits[1].at = 2
  /\ interactions_total = 3

\* C32: if the check of the conserved quantities at the end of a timestep
\* reports a deviation, run_time_evolution ends with an error and nothing of
\* the run follows: no timestep, no action, no propagation, no output; if it
\* reports none, the loop goes on with the next tick.
C32_DeviationIsFatal ==
  /\ pc = "failed" <=> err_msg # ""
  /\ pc = "failed" => ~ENABLED LoopNext
  /\ (pc = "tick" /\ labclock > 0) => (err_msg = "" /\ ENABLED Tick)

C32_Witness ==
  /\ pc = "failed"
  /\ err_msg # ""
  /\ labclock = 1
  /\ Len(outputs) = 1
  /\ Len(visits) = 2

\* C33: the loop ends.  The clock advances by one tick once in each round,
\* the loop is left at the first tick at which the clock is beyond the end
\* time, and in such a tick no action is collected, validated or performed.
C33_LoopTerminates ==
  /\ <>(pc \in { "done", "failed" })
  /\ [](pc = "done" => labclock = EndTime + 1)
  /\ [](pc \in { "find", "act" } => labclock \in 1 .. EndTime)
  /\ [][ /\ labclock' # labclock => (pc = "tick" /\ labclock' = labclock + 1)
         /\ pc' = "find" => labclock' = labclock + 1
         /\ labclock' > EndTime =>
              /\ actions' = actions
              /\ visits' = visits
              /\ particles_' = particles_
              /\ pc' \in { "done", "failed" }
       ]_vars

C33_Witness ==
  /\ pc = "done"
  /\ labclock = EndTime + 1
  /\ interactions_total = 2
  /\ visits # << >>
  /\ visits[Len(visits)].at = EndTime

generation(p) == [id |-> p.id, id_process |-> p.id_process]

generations(l) == { generation(l[k]) : k \in 1 .. Len(l) }

MaxMomentum == 2
\* The event generator returns 2 .. MaxFragments particles.
MaxFragments == 3
\* The incoming particles form at time_of_execution_ - 1 .. MaxFormationTime.
MaxFormationTime == 5
\* The longest list of candidate branches of a ScatterAction.
MaxBranches == 2
\* The weights of the branches are One .. MaxWeight * One.
MaxWeight == 2
\* The longest particle list of a TwoToOne branch.
MaxOutgoing == 3

\* const int ntry_max = 10000;
ntry_max == 10000

\* the fixed-point representation of 1.0
One == 8

\* Action::time_of_execution_
time_of_execution_ == 4

\* x * y of two fixed-point numbers
times(x, y) == (x * y) \div One

Max(a, b) == IF a > b THEN a ELSE b

\* the process types for which generate_final_state calls string_excitation
StringProcessTypes ==
  { "StringSoftSingleDiffractiveAX", "StringSoftSingleDiffractiveXB",
    "StringSoftDoubleDiffractive", "StringSoftNonDiffractive",
    "StringSoftAnnihilation", "StringHard" }

\* the process types a branch can carry; Decay is no case of the switch of
\* generate_final_state
ProcessTypes ==
  { "Elastic", "TwoToOne", "TwoToTwo", "Decay" } \cup StringProcessTypes

\* a ParticleData made from a particle type, as the particle list of a branch
\* holds it
NewParticleData(type) ==
  [id |-> -1, type |-> type, momentum |-> 0, position |-> 0,
   formation_time |-> 0, begin_formation_time |-> 0,
   initial_xsec_scaling_factor |-> One]

\* the formation times of an incoming particle: formed one tick before the
\* time of execution, or forming until some tick after it
FormationTimes ==
  { time_of_execution_ - 1 }
    \cup (time_of_execution_ + 1 .. MaxFormationTime)

\* the colliding pairs: A and B, each formed or still forming at the time of
\* execution
IncomingPairs ==
  { << [id |-> 0, type |-> "A", momentum |-> 3, position |-> 0,
        formation_time |-> t0, begin_formation_time |-> 2,
        initial_xsec_scaling_factor |-> One \div 2],
       [id |-> 1, type |-> "B", momentum |-> -1, position |-> 2,
        formation_time |-> t1, begin_formation_time |-> 1,
        initial_xsec_scaling_factor |-> One \div 4] >> :
      t0, t1 \in FormationTimes }

\* the k-th fragment of the event generator: the fragments form at, one tick
\* after and two ticks after the time of execution, in turn, with the
\* scaling factors 0.5 and 1.0, in turn
Fragment(k) ==
  [id |-> -1, type |-> "fragment", momentum |-> 0, position |-> 0,
   formation_time |-> time_of_execution_ + ((k - 1) % 3),
   begin_formation_time |-> time_of_execution_,
   initial_xsec_scaling_factor |-> IF k % 2 = 1 THEN One \div 2 ELSE One]

\* the lists string_process_->get_final_state() can return
FinalStates ==
  { [k \in 1 .. n |-> Fragment(k)] : n \in 2 .. MaxFragments }

\* the particle lists of the branches the cross-section module makes
ParticleLists(type) ==
  IF type = "Elastic" THEN { << "A", "B" >> }
  ELSE IF type = "TwoToTwo" THEN { << "C", "D" >> }
  ELSE IF type = "TwoToOne"
    THEN { [k \in 1 .. n |-> "R"] : n \in 0 .. MaxOutgoing }
  ELSE { << >> }

\* the CollisionBranch objects add_collision can be handed
Branches ==
  UNION { { [type |-> type, particle_list |-> list, weight |-> w * One] :
              list \in ParticleLists(type), w \in 1 .. MaxWeight } :
          type \in ProcessTypes }

\* ParticleList ProcessBranch::particle_list() const
particle_list(branch) ==
  [k \in 1 .. Len(branch.particle_list) |->
     NewParticleData(branch.particle_list[k])]

\* double ParticleData::xsec_scaling_factor() const: 1.0 for a formed
\* particle, smaller while it forms
xsec_scaling_factor(p) ==
  IF p.formation_time <= time_of_execution_
    THEN One ELSE p.initial_xsec_scaling_factor

\* the setters of ParticleData
set_formation_time(p, t) == [p EXCEPT !.formation_time = t]

set_slow_formation_times(p, begin_form_time, t) ==
  [p EXCEPT !.begin_formation_time = begin_form_time, !.formation_time = t]

set_cross_section_scaling_factor(p, x) ==
  [p EXCEPT !.initial_xsec_scaling_factor = x]

set_4position(p, x) == [p EXCEPT !.position = x]

\* void ParticleData::boost_momentum(const ThreeVector &v), with -v handed in
boost_momentum(p, v) == [p EXCEPT !.momentum = @ + v]

\* FourVector Action::get_interaction_point() const: the middle of the
\* positions of the incoming particles
get_interaction_point(incoming) ==
  (incoming[1].position + incoming[2].position) \div 2

\* total_momentum_of_outgoing_particles().velocity(), for particles of unit
\* mass
velocity(incoming) ==
  (incoming[1].momentum + incoming[2].momentum) \div 2

\* pCM(sqrt_s(), m_a, m_b) for the masses of the incoming particles: the
\* momentum of each of them in the centre-of-mass frame
pCM(incoming) ==
  LET q == incoming[1].momentum - velocity(incoming)
  IN  IF q < 0 THEN -q ELSE q

\* the momenta sample_angles can give the first particle of an elastic
\* scattering: pscatt * p_f, along the axis or against it
ElasticMomenta(incoming) == { pCM(incoming), -pCM(incoming) }

\* twice the kinetic energy of a particle of unit mass
energy(p) == p.momentum * p.momentum

\* add_process<CollisionBranch>(p, collision_channels_, total_cross_section_)
add_process(channels, total, p) ==
  [channels |-> Append(channels, p), total |-> total + p.weight]

\* add_processes<CollisionBranch>(pv, collision_channels_,
\* total_cross_section_)
RECURSIVE add_processes(_, _, _)
add_processes(channels, total, pv) ==
  IF pv = << >> THEN [channels |-> channels, total |-> total]
  ELSE LET added == add_process(channels, total, Head(pv))
       IN  add_processes(added.channels, added.total, Tail(pv))

\* choose_channel<CollisionBranch>(subprocesses, total_weight), with the
\* random number it drew: the first branch at which the running sum of the
\* weights reaches the random number
RECURSIVE choose_from(_, _, _, _)
choose_from(subprocesses, random_weight, k, weight_sum) ==
  IF k > Len(subprocesses) THEN NoBranch
  ELSE IF random_weight <= weight_sum + subprocesses[k].weight
    THEN subprocesses[k]
  ELSE choose_from(subprocesses, random_weight, k + 1,
                   weight_sum + subprocesses[k].weight)

choose_channel(subprocesses, random_weight) ==
  choose_from(subprocesses, random_weight, 1, 0)

\* get_total_weight that leaves out the second incoming particle
get_total_weight_of_first ==
  times(total_cross_section_, xsec_scaling_factor(incoming_particles_[1]))

\* double ScatterAction::get_total_weight() const
get_total_weight ==
  times(times(total_cross_section_,
              xsec_scaling_factor(incoming_particles_[1])),
        xsec_scaling_factor(incoming_particles_[2]))

\* get_partial_weight that leaves out the scaling factors
get_partial_weight_unscaled == partial_cross_section_

\* double ScatterAction::get_partial_weight() const
get_partial_weight ==
  times(times(partial_cross_section_,
              xsec_scaling_factor(incoming_particles_[1])),
        xsec_scaling_factor(incoming_particles_[2]))

\* the outcomes of one call of string_process_->next_...()
next_String(type) ==
  IF type \in StringProcessTypes THEN BOOLEAN ELSE { FALSE }

\* sample_angles that sends both particles the same way
sample_angles_same_direction(type, outgoing, p) ==
  IF type \in StringProcessTypes THEN outgoing
  ELSE [outgoing EXCEPT ![1].momentum = p, ![2].momentum = p]

\* void sample_angles(...): nothing for a string process; else the outgoing
\* pair gets the momenta p and -p in the centre-of-mass frame
sample_angles(type, outgoing, p) ==
  IF type \in StringProcessTypes THEN outgoing
  ELSE [outgoing EXCEPT ![1].momentum = p, ![2].momentum = -p]

\* elastic_scattering that copies the incoming particles crosswise
elastic_scattering_crosswise(type, incoming, outgoing, p) ==
  sample_angles(type,
                [outgoing EXCEPT ![1] = incoming[2], ![2] = incoming[1]], p)

\* void elastic_scattering(): copy the incoming particles over the first two
\* outgoing ones, then resample the momenta
elastic_scattering(type, incoming, outgoing, p) ==
  sample_angles(type,
                [outgoing EXCEPT ![1] = incoming[1], ![2] = incoming[2]], p)

\* index_tmax that takes the first particle if both form at the same time
index_tmax_first(incoming) ==
  IF incoming[1].formation_time >= incoming[2].formation_time THEN 1 ELSE 2

\* const size_t index_tmax = (t0 > t1) ? 0 : 1; counted from 1 here
index_tmax(incoming) ==
  IF incoming[1].formation_time > incoming[2].formation_time THEN 1 ELSE 2

\* the formation rule that leaves the formation time of a particle alone if
\* both incoming particles are formed
inherit_formation_if_forming(p, incoming) ==
  LET t0 == incoming[1].formation_time
      t1 == incoming[2].formation_time
      later == incoming[index_tmax(incoming)]
  IN  IF t0 > time_of_execution_ \/ t1 > time_of_execution_
        THEN set_cross_section_scaling_factor(
               set_slow_formation_times(p, later.begin_formation_time,
                                        Max(t0, t1)),
               later.initial_xsec_scaling_factor)
        ELSE p

\* the formation rule that leaves the scaling factor alone
inherit_formation_times(p, incoming) ==
  LET t0 == incoming[1].formation_time
      t1 == incoming[2].formation_time
      later == incoming[index_tmax(incoming)]
  IN  IF t0 > time_of_execution_ \/ t1 > time_of_execution_
        THEN set_slow_formation_times(p, later.begin_formation_time,
                                      Max(t0, t1))
        ELSE set_formation_time(p, time_of_execution_)

\* the formation times and the scaling factor inelastic_scattering and
\* resonance_formation give an outgoing particle
inherit_formation(p, incoming) ==
  LET t0 == incoming[1].formation_time
      t1 == incoming[2].formation_time
      later == incoming[index_tmax(incoming)]
  IN  IF t0 > time_of_execution_ \/ t1 > time_of_execution_
        THEN set_cross_section_scaling_factor(
               set_slow_formation_times(p, later.begin_formation_time,
                                        Max(t0, t1)),
               later.initial_xsec_scaling_factor)
        ELSE set_formation_time(p, time_of_execution_)

\* void inelastic_scattering(): sample_2body_phasespace, then the formation
\* rule for the two outgoing particles
inelastic_scattering(type, incoming, outgoing, p) ==
  LET sampled == sample_angles(type, outgoing, p)
  IN  [sampled EXCEPT ![1] = inherit_formation(@, incoming),
                      ![2] = inherit_formation(@, incoming)]

\* the check of resonance_formation that lets every list but the empty pass
resonance_formation_fails_if_empty(outgoing) == Len(outgoing) = 0

\* if (outgoing_particles_.size() != 1) throw InvalidResonanceFormation(s);
resonance_formation_fails(outgoing) == Len(outgoing) # 1

\* void resonance_formation(), behind its check: the resonance at rest, then
\* the formation rule
resonance_formation(incoming, outgoing) ==
  [outgoing EXCEPT
     ![1] = inherit_formation([@ EXCEPT !.momentum = 0], incoming)]

\* string_excitation, for one particle of the final state of the event
\* generator: the scaling factor and the formation times if an incoming
\* particle is still forming
string_formation(p, incoming) ==
  LET t0 == incoming[1].formation_time
      t1 == incoming[2].formation_time
      tform_in == Max(t0, t1)
      fin == IF t0 > t1 THEN incoming[1].initial_xsec_scaling_factor
                        ELSE incoming[2].initial_xsec_scaling_factor
      scaled == set_cross_section_scaling_factor(
                  p, times(fin, p.initial_xsec_scaling_factor))
  IN  IF tform_in > time_of_execution_
        THEN IF tform_in > p.formation_time
               THEN set_slow_formation_times(scaled, time_of_execution_,
                                             tform_in)
               ELSE scaled
        ELSE p

\* the loop at the end of generate_final_state: boost to the computational
\* frame, and the interaction point as position unless the chosen branch is
\* Elastic
final_frame(chosen, incoming, outgoing) ==
  [k \in 1 .. Len(outgoing) |->
     LET boosted == boost_momentum(outgoing[k], velocity(incoming))
     IN  IF chosen.type # "Elastic"
           THEN set_4position(boosted, get_interaction_point(incoming))
           ELSE boosted]

\* a switch without the case StringHard
Dispatched_without_StringHard ==
  { "Elastic", "TwoToOne", "TwoToTwo" }
    \cup (StringProcessTypes \ { "StringHard" })

\* the cases of the switch of generate_final_state
Dispatched ==
  { "Elastic", "TwoToOne", "TwoToTwo" } \cup StringProcessTypes

\* a retry loop that allows one attempt more
retrying_once_more == ~success /\ ntry <= ntry_max

\* while (!success && ntry < ntry_max)
retrying == ~success /\ ntry < ntry_max

\* one pass of the retry loop: ntry++ and one call of the event generator
StringTry ==
  /\ scatter_pc = "string_excitation"
  /\ retrying
  /\ ntry' = ntry + 1
  /\ success' \in next_String(process_type_)
  /\ UNCHANGED <<scatter_pc, collision_channels_, total_cross_section_,
                 partial_cross_section_, proc, process_type_,
                 incoming_particles_, outgoing_particles_>>
  /\ UNCHANGED storevars
  /\ UNCHANGED loopvars

\* behind the loop: the elastic fallback if ntry == ntry_max, the final state
\* of the event generator with its formation times and scaling factors if
\* not; string_excitation returns
StringFinish ==
  /\ scatter_pc = "string_excitation"
  /\ ~retrying
  /\ IF ntry = ntry_max
       THEN /\ process_type_' = "Elastic"
            /\ \E p \in ElasticMomenta(incoming_particles_) :
                 outgoing_particles_' =
                   elastic_scattering(
                     "Elastic",
                     incoming_particles_,
                     Append(Append(outgoing_particles_,
                                   incoming_particles_[1]),
                            incoming_particles_[2]),
                     p)
       ELSE /\ \E final_state \in FinalStates :
                 outgoing_particles_' =
                   [k \in 1 .. Len(final_state) |->
                      string_formation(final_state[k], incoming_particles_)]
            /\ UNCHANGED process_type_
  /\ scatter_pc' = "done"
  /\ UNCHANGED <<collision_channels_, total_cross_section_,
                 partial_cross_section_, proc, incoming_particles_,
                 ntry, success>>
  /\ UNCHANGED storevars
  /\ UNCHANGED loopvars

\* back in generate_final_state after string_excitation: the loop over the
\* outgoing particles.  The locals of string_excitation are gone.
StringFinalFrame ==
  /\ scatter_pc = "done"
  /\ outgoing_particles_' =
       final_frame(proc, incoming_particles_, outgoing_particles_)
  /\ scatter_pc' = "final"
  /\ ntry' = 0
  /\ success' = FALSE
  /\ UNCHANGED <<collision_channels_, total_cross_section_,
                 partial_cross_section_, proc, process_type_,
                 incoming_particles_>>
  /\ UNCHANGED storevars
  /\ UNCHANGED loopvars

\* no store is in use and no event is running
NoExperiment ==
  /\ particles_ = NewStore
  /\ debug_build = TRUE
  /\ status = "ok"
  /\ handles = {}
  /\ removed = {}
  /\ call = NoCall
  /\ n_insert = 0
  /\ n_remove = 0
  /\ n_reset = 0
  /\ before_reset = {}
  /\ labclock = 0
  /\ pc = "idle"
  /\ actions = << >>
  /\ cursor = 0
  /\ interactions_total = 0
  /\ visits = << >>
  /\ n_proposed = 0
  /\ outputs = << >>
  /\ err_msg = ""

\* generate_final_state has chosen a string branch, whose particle list is
\* empty, and calls string_excitation
StringInit ==
  /\ NoExperiment
  /\ scatter_pc = "string_excitation"
  /\ proc \in { b \in Branches :
                  b.type \in StringProcessTypes /\ b.weight = One }
  /\ collision_channels_ = << proc >>
  /\ total_cross_section_ = proc.weight
  /\ partial_cross_section_ = proc.weight
  /\ process_type_ = proc.type
  /\ incoming_particles_ \in IncomingPairs
  /\ outgoing_particles_ = particle_list(proc)
  /\ ntry = 0
  /\ success = FALSE

StringNext == StringTry \/ StringFinish \/ StringFinalFrame

StringSpec == StringInit /\ [][StringNext]_vars

\* void add_collision(CollisionBranchPtr p)
AddCollision ==
  /\ scatter_pc = "proposed"
  /\ Len(collision_channels_) < MaxBranches
  /\ \E p \in Branches :
       LET added == add_process(collision_channels_, total_cross_section_, p)
       IN  /\ collision_channels_' = added.channels
           /\ total_cross_section_' = added.total
  /\ UNCHANGED <<scatter_pc, partial_cross_section_, proc, process_type_,
                 incoming_particles_, outgoing_particles_, ntry, success>>
  /\ UNCHANGED storevars
  /\ UNCHANGED loopvars

\* void add_collisions(CollisionBranchList pv), with two branches or more
AddCollisions ==
  /\ scatter_pc = "proposed"
  /\ \E pv \in Lists(Branches, MaxBranches - Len(collision_channels_)) :
       /\ Len(pv) >= 2
       /\ LET added == add_processes(collision_channels_,
                                     total_cross_section_, pv)
          IN  /\ collision_channels_' = added.channels
              /\ total_cross_section_' = added.total
  /\ UNCHANGED <<scatter_pc, partial_cross_section_, proc, process_type_,
                 incoming_particles_, outgoing_particles_, ntry, success>>
  /\ UNCHANGED storevars
  /\ UNCHANGED loopvars

\* void generate_final_state(), up to its return, to the exception it throws
\* or to its call of string_excitation
GenerateFinalState ==
  /\ scatter_pc = "proposed"
  /\ collision_channels_ # << >>
  /\ \E random_weight \in 0 .. total_cross_section_ :
       LET chosen == choose_channel(collision_channels_, random_weight)
           listed == particle_list(chosen)
       IN  /\ proc' = chosen
           /\ process_type_' = chosen.type
           /\ partial_cross_section_' = chosen.weight
           /\ IF chosen.type \notin Dispatched
                THEN /\ outgoing_particles_' = listed
                     /\ scatter_pc' = "InvalidScatterAction"
              ELSE IF chosen.type = "Elastic"
                THEN /\ \E p \in ElasticMomenta(incoming_particles_) :
                          outgoing_particles_' =
                            final_frame(chosen, incoming_particles_,
                              elastic_scattering(chosen.type,
                                incoming_particles_, listed, p))
                     /\ scatter_pc' = "final"
              ELSE IF chosen.type = "TwoToOne"
                THEN IF resonance_formation_fails(listed)
                       THEN /\ outgoing_particles_' = listed
                            /\ scatter_pc' = "InvalidResonanceFormation"
                       ELSE /\ outgoing_particles_' =
                                 final_frame(chosen, incoming_particles_,
                                   resonance_formation(incoming_particles_,
                                                       listed))
                            /\ scatter_pc' = "final"
              ELSE IF chosen.type = "TwoToTwo"
                THEN /\ \E p \in 1 .. MaxMomentum :
                          outgoing_particles_' =
                            final_frame(chosen, incoming_particles_,
                              inelastic_scattering(chosen.type,
                                incoming_particles_, listed, p))
                     /\ scatter_pc' = "final"
              ELSE /\ outgoing_particles_' = listed
                   /\ scatter_pc' = "string_excitation"
  /\ UNCHANGED <<collision_channels_, total_cross_section_,
                 incoming_particles_, ntry, success>>
  /\ UNCHANGED storevars
  /\ UNCHANGED loopvars

\* a finder has constructed the ScatterAction of a pair
ScatterInit ==
  /\ NoExperiment
  /\ scatter_pc = "proposed"
  /\ collision_channels_ = << >>
  /\ total_cross_section_ = 0
  /\ partial_cross_section_ = 0
  /\ proc = NoBranch
  /\ process_type_ = "None"
  /\ incoming_particles_ \in IncomingPairs
  /\ outgoing_particles_ = << >>
  /\ ntry = 0
  /\ success = FALSE

ScatterNext == AddCollision \/ AddCollisions \/ GenerateFinalState

ScatterSpec == ScatterInit /\ [][ScatterNext]_vars

\* the particle with the momentum of another
with_momentum_of(p, q) == [p EXCEPT !.momentum = q.momentum]

\* C19: if every call of the event generator fails, string_excitation makes
\* exactly ntry_max attempts and ends, without an error, as an elastic
\* scattering: process type Elastic and two outgoing particles that are the
\* incoming pair except for their momenta.
C19_ExhaustedRetriesFallBack ==
  /\ ntry <= ntry_max
  /\ (scatter_pc = "string_excitation" /\ ~success /\ ntry = ntry_max)
       => ~ENABLED StringTry /\ ENABLED StringFinish
  /\ (scatter_pc = "done" /\ ~success) =>
       /\ ntry = ntry_max
       /\ process_type_ = "Elastic"
       /\ Len(outgoing_particles_) = 2
       /\ \A k \in 1 .. 2 :
            with_momentum_of(outgoing_particles_[k], incoming_particles_[k])
              = incoming_particles_[k]

C19_Witness ==
  /\ scatter_pc = "done"
  /\ ~success
  /\ ntry = ntry_max
  /\ process_type_ = "Elastic"
  /\ Len(outgoing_particles_) = 2
  /\ outgoing_particles_[1].id = incoming_particles_[1].id
  /\ outgoing_particles_[1].momentum # incoming_particles_[1].momentum

\* the final states of the event generator after string_excitation gave them
\* their formation times and scaling factors
AdoptedFinalStates ==
  { [k \in 1 .. Len(final_state) |->
       string_formation(final_state[k], incoming_particles_)] :
      final_state \in FinalStates }

\* C20: if the event generator succeeds on an attempt, the first up to the
\* last one allowed, the loop stops there, the action takes the final state
\* of the event generator and keeps its string process type; the elastic
\* fallback is taken only if no attempt succeeded.
C20_SuccessIsAdopted ==
  /\ (scatter_pc = "done" /\ success) =>
       /\ process_type_ \in StringProcessTypes
       /\ outgoing_particles_ \in AdoptedFinalStates
  /\ (scatter_pc = "done" /\ process_type_ = "Elastic") => ~success

\* C21: after the elastic fallback of a string process, generate_final_state
\* leaves each outgoing particle at the position of the incoming particle it
\* is a copy of, as it does for a chosen Elastic branch; the outgoing
\* particles are not moved to the interaction point.
C21_FallbackKeepsPositions ==
  (scatter_pc = "final" /\ proc.type \in StringProcessTypes
     /\ process_type_ = "Elastic") =>
    /\ Len(outgoing_particles_) = 2
    /\ \A k \in 1 .. 2 :
         outgoing_particles_[k].position = incoming_particles_[k].position

\* C22: for a chosen Elastic branch generate_final_state ends with exactly
\* two outgoing particles, the copies of the first and of the second incoming
\* particle in this order, that differ from them in nothing but the momentum.
C22_ElasticCopiesIncoming ==
  (scatter_pc = "final" /\ proc.type = "Elastic") =>
    /\ Len(outgoing_particles_) = 2
    /\ \A k \in 1 .. 2 :
         with_momentum_of(outgoing_particles_[k], incoming_particles_[k])
           = incoming_particles_[k]

C22_Witness ==
  /\ scatter_pc = "final"
  /\ proc.type = "Elastic"
  /\ Len(collision_channels_) = 2
  /\ outgoing_particles_[1].id = incoming_particles_[1].id
  /\ outgoing_particles_[2].id = incoming_particles_[2].id
  /\ outgoing_particles_[1].momentum # incoming_particles_[1].momentum
  /\ outgoing_particles_[2].position = incoming_particles_[2].position
  /\ outgoing_particles_[2].position # get_interaction_point(incoming_particles_)

\* C23: generate_final_state fails with InvalidResonanceFormation exactly if
\* the chosen branch is a TwoToOne branch whose particle list has not exactly
\* one entry: none, two or more.
C23_InvalidResonanceFormation ==
  (scatter_pc # "proposed") =>
    ((scatter_pc = "InvalidResonanceFormation")
       <=> (proc.type = "TwoToOne" /\ Len(proc.particle_list) # 1))

C23_Witness ==
  /\ scatter_pc = "InvalidResonanceFormation"
  /\ proc.type = "TwoToOne"
  /\ Len(proc.particle_list) >= 2
  /\ Len(outgoing_particles_) = Len(proc.particle_list)

\* C24: generate_final_state fails with InvalidScatterAction exactly if the
\* process type of the chosen branch is none of Elastic, TwoToOne, TwoToTwo
\* and the six string types; each of the nine goes its own way: Elastic and
\* TwoToTwo to a final state, TwoToOne to a final state or to
\* InvalidResonanceFormation, a string type to string_excitation.
C24_InvalidScatterAction ==
  (scatter_pc # "proposed") =>
    /\ (scatter_pc = "InvalidScatterAction")
         <=> proc.type \notin
               { "Elastic", "TwoToOne", "TwoToTwo",
                 "StringSoftSingleDiffractiveAX",
                 "StringSoftSingleDiffractiveXB",
                 "StringSoftDoubleDiffractive", "StringSoftNonDiffractive",
                 "StringSoftAnnihilation", "StringHard" }
    /\ proc.type \in { "Elastic", "TwoToTwo" } => scatter_pc = "final"
    /\ proc.type = "TwoToOne"
         => scatter_pc \in { "final", "InvalidResonanceFormation" }
    /\ proc.type \in StringProcessTypes => scatter_pc = "string_excitation"

C24_Witness ==
  /\ scatter_pc = "InvalidScatterAction"
  /\ proc.type = "Decay"
  /\ process_type_ = "Decay"
  /\ \E k \in 1 .. Len(collision_channels_) :
       collision_channels_[k].type = "StringHard"

\* an incoming particle forms after the time of execution
forming ==
  \/ incoming_particles_[1].formation_time > time_of_execution_
  \/ incoming_particles_[2].formation_time > time_of_execution_

\* the incoming particle with the later formation time, the second one if
\* both form at the same time
later_forming ==
  IF incoming_particles_[1].formation_time
       > incoming_particles_[2].formation_time
    THEN incoming_particles_[1]
    ELSE incoming_particles_[2]

\* generate_final_state has made the final state of a TwoToOne or a TwoToTwo
\* branch
formed_by_collision ==
  scatter_pc = "final" /\ proc.type \in { "TwoToOne", "TwoToTwo" }

C26_LaterTimeEarlierBegin ==
  (formed_by_collision /\ forming) =>
    \A k \in 1 .. Len(outgoing_particles_) :
      /\ outgoing_particles_[k].formation_time =
           Max(incoming_particles_[1].formation_time,
               incoming_particles_[2].formation_time)
      /\ outgoing_particles_[k].begin_formation_time =
           IF incoming_particles_[1].begin_formation_time
                < incoming_particles_[2].begin_formation_time
             THEN incoming_particles_[1].begin_formation_time
             ELSE incoming_particles_[2].begin_formation_time

\* C26, as the code has it: every outgoing particle gets the later of the
\* two formation times, and the begin time of the incoming particle that
\* forms later (of the second one if both form at the same time), be it the
\* earlier or the later of the two begin times.
C26_LaterTimeItsBegin ==
  (formed_by_collision /\ forming) =>
    \A k \in 1 .. Len(outgoing_particles_) :
      /\ outgoing_particles_[k].formation_time =
           Max(incoming_particles_[1].formation_time,
               incoming_particles_[2].formation_time)
      /\ outgoing_particles_[k].begin_formation_time =
           IF incoming_particles_[1].formation_time
                > incoming_particles_[2].formation_time
             THEN incoming_particles_[1].begin_formation_time
             ELSE incoming_particles_[2].begin_formation_time

C26_Witness ==
  /\ formed_by_collision
  /\ incoming_particles_[1].formation_time > time_of_execution_
  /\ incoming_particles_[2].formation_time < time_of_execution_
  /\ incoming_particles_[1].begin_formation_time
       > incoming_particles_[2].begin_formation_time
  /\ Len(outgoing_particles_) = 1
  /\ outgoing_particles_[1].begin_formation_time
       = incoming_particles_[1].begin_formation_time

\* C27: in the same case every outgoing particle gets the formation time,
\* the begin time of the formation and, as its scaling factor, the initial
\* scaling factor of the incoming particle with the later formation time.
C27_InheritsFromLaterForming ==
  (formed_by_collision /\ forming) =>
    \A k \in 1 .. Len(outgoing_particles_) :
      /\ outgoing_particles_[k].formation_time
           = later_forming.formation_time
      /\ outgoing_particles_[k].begin_formation_time
           = later_forming.begin_formation_time
      /\ outgoing_particles_[k].initial_xsec_scaling_factor
           = later_forming.initial_xsec_scaling_factor

\* A forms at 5 from 2 on, B is formed at 3, the collision is executed at 4
C27_Witness ==
  /\ formed_by_collision
  /\ proc.type = "TwoToTwo"
  /\ incoming_particles_[1].formation_time = 5
  /\ incoming_particles_[1].begin_formation_time = 2
  /\ incoming_particles_[2].formation_time = 3
  /\ time_of_execution_ = 4
  /\ \A k \in 1 .. 2 :
       /\ outgoing_particles_[k].formation_time = 5
       /\ outgoing_particles_[k].begin_formation_time = 2
       /\ outgoing_particles_[k].initial_xsec_scaling_factor
            = incoming_particles_[1].initial_xsec_scaling_factor
       /\ outgoing_particles_[k].initial_xsec_scaling_factor # One

\* the fragments of a final state with the scaling factor and the formation
\* time a fragment gets beside a forming incoming particle
scaled_fragments(final_state) ==
  /\ Len(outgoing_particles_) = Len(final_state)
  /\ \A k \in 1 .. Len(final_state) :
       /\ outgoing_particles_[k].type = final_state[k].type
       /\ outgoing_particles_[k].initial_xsec_scaling_factor =
            times(later_forming.initial_xsec_scaling_factor,
                  final_state[k].initial_xsec_scaling_factor)
       /\ outgoing_particles_[k].formation_time =
            Max(final_state[k].formation_time,
                later_forming.formation_time)

\* C28: if the event generator succeeded and an incoming particle is still
\* forming, every outgoing fragment has as scaling factor the product of the
\* initial factor of the later forming incoming particle and its own initial
\* factor, and as formation time the later of its own and that of the later
\* forming incoming particle.
C28_FragmentsScaled ==
  (scatter_pc = "done" /\ success /\ forming) =>
    \E final_state \in FinalStates : scaled_fragments(final_state)

\* the same for a success before the last attempt allowed
C28_FragmentsScaledBeforeLastAttempt ==
  (scatter_pc = "done" /\ success /\ forming /\ ntry < ntry_max) =>
    \E final_state \in FinalStates : scaled_fragments(final_state)

C28_ScaledFragmentReached ==
  /\ scatter_pc = "done"
  /\ success
  /\ forming
  /\ ntry < ntry_max
  /\ Len(outgoing_particles_) = 3
  /\ outgoing_particles_[1].formation_time > Fragment(1).formation_time
  /\ outgoing_particles_[3].formation_time = Fragment(3).formation_time
  /\ outgoing_particles_[1].initial_xsec_scaling_factor
       < Fragment(1).initial_xsec_scaling_factor

\* the sum of the weights of a list of branches
RECURSIVE sum_of_weights(_)
sum_of_weights(branches) ==
  IF branches = << >> THEN 0
  ELSE Head(branches).weight + sum_of_weights(Tail(branches))

\* C29, as the specification states it: the total weight of the action is
\* the sum of the weights of all branches added, for every sequence of
\* additions and every pair of incoming particles.
C29_TotalWeightIsSum ==
  get_total_weight = sum_of_weights(collision_channels_)

\* C29, as the code has it: the total weight is the sum of the weights of
\* all branches added, times the scaling factors of the two incoming
\* particles; it is the sum itself if both incoming particles are formed.
C29_TotalWeightIsScaledSum ==
  /\ total_cross_section_ = sum_of_weights(collision_channels_)
  /\ get_total_weight =
       times(times(sum_of_weights(collision_channels_),
                   xsec_scaling_factor(incoming_particles_[1])),
             xsec_scaling_factor(incoming_particles_[2]))
  /\ ~forming => get_total_weight = sum_of_weights(collision_channels_)

C29_Witness ==
  /\ Len(collision_channels_) = 2
  /\ collision_channels_[1].weight # collision_channels_[2].weight
  /\ incoming_particles_[1].formation_time < time_of_execution_
  /\ incoming_particles_[2].formation_time > time_of_execution_
  /\ get_total_weight > 0
  /\ get_total_weight < sum_of_weights(collision_channels_)

\* C30: generate_final_state chooses one branch, a member of the list of
\* branches added; the process type, the outgoing particles and the partial
\* cross section of the action are those of this branch, and the partial
\* weight is never more than the total weight.
C30_ChosenBranch ==
  (scatter_pc # "proposed") =>
    /\ \E k \in 1 .. Len(collision_channels_) : proc = collision_channels_[k]
    /\ process_type_ = proc.type
    /\ [k \in 1 .. Len(outgoing_particles_) |-> outgoing_particles_[k].type]
         = proc.particle_list
    /\ partial_cross_section_ = proc.weight
    /\ get_partial_weight <= get_total_weight

C30_Witness ==
  /\ scatter_pc = "final"
  /\ Len(collision_channels_) = 2
  /\ proc = collision_channels_[2]
  /\ proc # collision_channels_[1]
  /\ process_type_ = "TwoToTwo"
  /\ forming
  /\ get_partial_weight > 0
  /\ get_partial_weight < get_total_weight

\* colliding pairs A and B, both formed, of any two momenta whose sum is
\* even, so that the velocity of the pair is a whole number
CollidingPairs ==
  { << [id |-> 0, type |-> "A", momentum |-> mom[1], position |-> 0,
        formation_time |-> time_of_execution_ - 1,
        begin_formation_time |-> 2,
        initial_xsec_scaling_factor |-> One],
       [id |-> 1, type |-> "B", momentum |-> mom[2], position |-> 2,
        formation_time |-> time_of_execution_ - 1,
        begin_formation_time |-> 1,
        initial_xsec_scaling_factor |-> One] >> :
      mom \in { m \in (-MaxMomentum .. MaxMomentum)
                        \X (-MaxMomentum .. MaxMomentum) :
                  (m[1] + m[2] + 2 * MaxMomentum) % 2 = 0 } }

\* a ScatterAction of a colliding pair to which add_collision has added one
\* branch that is no string process
BranchAdded ==
  /\ NoExperiment
  /\ scatter_pc = "proposed"
  /\ \E p \in { b \in Branches : b.type \notin StringProcessTypes } :
       LET added == add_process(<< >>, 0, p)
       IN  /\ collision_channels_ = added.channels
           /\ total_cross_section_ = added.total
  /\ partial_cross_section_ = 0
  /\ proc = NoBranch
  /\ process_type_ = "None"
  /\ incoming_particles_ \in CollidingPairs
  /\ outgoing_particles_ = << >>
  /\ ntry = 0
  /\ success = FALSE

\* generate_final_state is about to choose the one branch of its action, or
\* has chosen a string branch and calls string_excitation
ResolveInit == BranchAdded \/ StringInit

ResolveNext == GenerateFinalState \/ StringNext

\* generate_final_state from choose_channel to its end, string_excitation
\* included
ResolveSpec == ResolveInit /\ [][ResolveNext]_vars

====
